---- MODULE Spec2Model ----
(***************************************************************************)
(* Animated Sankey particle flow (sankey.js) and the panel navigation      *)
(* that starts it (main.js part of geographical.js).                       *)
(*                                                                         *)
(* Time is in milliseconds.  Math.random() is a draw r / RandomScale with  *)
(* r in RandomDraws.  Particle progress is kept in units of                *)
(* 1 / ProgressScale so that speed = 1/3000 per ms and the initial         *)
(* progress r * 0.3 are exact integers.                                    *)
(***************************************************************************)
EXTENDS Integers, Sequences, FiniteSets, TLC

VARIABLES
    activePanel,        \* the panel carrying class 'active' ("none" before DOMContentLoaded)
    sankeyInitialized,  \* window.sankeyInitialized: the years whose flag is true
    pendingLoads,       \* year -> number of d3.json promises not yet settled
    container,          \* year -> content of element #sankey-<year>
    animationStates,    \* year -> state object (0 = undefined)
    heap,               \* state object id -> its fields, with the closure's lastTime
    rafQueue            \* the host's list of requested animation frame callbacks

vars == <<activePanel, sankeyInitialized, pendingLoads, container,
          animationStates, heap, rafQueue>>

-----------------------------------------------------------------------------
(* Program constants *)

\* sankey.js line 26 (names transliterated, same order):
\* lower class, working class, lower-middle, middle, upper-middle, upper
\* mutant: the order of the design document, working class first
CLASS_ORDER_AsDocumented ==
    <<"working", "lower", "lowerMiddle", "middle", "upperMiddle", "upper">>

CLASS_ORDER == <<"lower", "working", "lowerMiddle", "middle", "upperMiddle", "upper">>

particleDuration == 3000
waitAfterParticles == 2000
spawnWindow == 2000
speedDenominator == 3000
\* link opacities, in tenths: 1.0 for the active class, 0.2 for the others
fullOpacity == 10
dimOpacity == 2

\* the years of initializePanelContent's switch that the model follows
Years == {"1992"}
YearPanel(y) == "year-" \o y
Panels == {"overview"} \cup {YearPanel(y) : y \in Years}

-----------------------------------------------------------------------------
(* Bounds and input sets *)

MaxObjects == 2          \* state objects alive at once (running + stopped, callback pending)
MaxPendingLoads == 2     \* d3.json requests in flight per year
RandomScale == 1000
RandomDraws == {0, 999}  \* Math.random() in thousandths
ProgressScale == 30000
\* currentTime - lastTime of a frame; negative only for a loop's first frame,
\* whose lastTime is performance.now() at render and not a frame timestamp
\* pixels of band width per sample in the layout (d3-sankey's ky)
LayoutScale == 2
\* container.clientWidth at the time of a render call, in px
ClientWidths == {0, 900}
HostFrameDeltas == {-1000, 0, 1000, 7000}
SessionFrameDeltas == {-1000, 0, 500, 1000, 1600, 7000}

\* wealth_data_<year>.json: the links of the dataset
Link(s, t, v) == [source |-> s, target |-> t, value |-> v]
\* the dataset the host's loads resolve to
DataHost == << Link("lower", "low", 1) >>
HostDataSets == {DataHost}
\* the datasets of the single-session specification
DataA == << Link("lower", "low", 2), Link("lower", "high", 1), Link("working", "low", 1) >>
DataB == << Link("working", "low", 1), Link("middle", "high", 0),
            Link("other", "low", 1), Link("upper", "high", 2) >>
SessionDataSets == {DataA, DataB}
\* the datasets of the session checked under fair scheduling
FairDataSets == {DataB}

-----------------------------------------------------------------------------
(* prepareParticlesForClass *)

\* mutant: the delays are spread over the spawn and travel time
SpawnDelayOfWideWindow(r1, r2, r3) ==
    ((r1 + r2 + r3) * (spawnWindow + particleDuration)) \div (3 * RandomScale)

\* mutant: the three draws are summed, not averaged
SpawnDelayOfSum(r1, r2, r3) == ((r1 + r2 + r3) * spawnWindow) \div RandomScale

\* spawnDelay = (random + random + random) / 3 * 2000
SpawnDelayOf(r1, r2, r3) == ((r1 + r2 + r3) * spawnWindow) \div (3 * RandomScale)

\* mutant: the initial progress is drawn from the whole path
InitialProgressOfWholePath(r) == (r * ProgressScale) \div RandomScale

\* initialProgress = random * 0.3, in units of 1 / ProgressScale
InitialProgressOf(r) == (r * 3 * ProgressScale) \div (10 * RandomScale)

\* the (spawnDelay, initialProgress) pairs one descriptor can draw
DescriptorDraws ==
    { <<SpawnDelayOf(r1, r2, r3), InitialProgressOf(r4)>> :
        r1 \in RandomDraws, r2 \in RandomDraws, r3 \in RandomDraws, r4 \in RandomDraws }

\* CLASS_ORDER[index] (undefined past the end of the array)
ClassAt(index) ==
    IF index + 1 \in DOMAIN CLASS_ORDER THEN CLASS_ORDER[index + 1] ELSE "undefined"

\* mutant: the filter on the source name is dropped
ActiveLinksUnfiltered(links, className) == [k \in 1..Len(links) |-> k]

\* mutant: the filter keeps the links of the other classes
ActiveLinksOfOthers(links, className) ==
    SelectSeq([k \in 1..Len(links) |-> k], LAMBDA k : links[k].source # className)

\* indexes of the links whose source node is className, in array order (filter)
ActiveLinks(links, className) ==
    SelectSeq([k \in 1..Len(links) |-> k], LAMBDA k : links[k].source = className)

\* mutant: the loop runs once too often (i <= link.value)
RECURSIVE LinkSlotsOffByOne(_, _)
LinkSlotsOffByOne(links, active) ==
    IF active = <<>> THEN <<>>
    ELSE [i \in 1..(links[Head(active)].value + 1) |-> Head(active)]
         \o LinkSlotsOffByOne(links, Tail(active))

\* mutant: every active link gets at least one descriptor
RECURSIVE LinkSlotsAtLeastOne(_, _)
LinkSlotsAtLeastOne(links, active) ==
    IF active = <<>> THEN <<>>
    ELSE [i \in 1..(IF links[Head(active)].value > 1
                    THEN links[Head(active)].value ELSE 1) |-> Head(active)]
         \o LinkSlotsAtLeastOne(links, Tail(active))

\* one descriptor per sample: link.value pushes for each active link, in order
RECURSIVE LinkSlots(_, _)
LinkSlots(links, active) ==
    IF active = <<>> THEN <<>>
    ELSE [i \in 1..links[Head(active)].value |-> Head(active)]
         \o LinkSlots(links, Tail(active))

\* mutant: the queue is left in push order
SortByDelaySkipped(queue) == queue

\* Array.prototype.sort with (a, b) => a.spawnDelay - b.spawnDelay (stable)
RECURSIVE InsertByDelay(_, _)
InsertByDelay(sorted, d) ==
    IF sorted = <<>> THEN <<d>>
    ELSE IF sorted[Len(sorted)].spawnDelay <= d.spawnDelay THEN Append(sorted, d)
    ELSE Append(InsertByDelay(SubSeq(sorted, 1, Len(sorted) - 1), d), sorted[Len(sorted)])

RECURSIVE SortByDelay(_)
SortByDelay(q) ==
    IF q = <<>> THEN <<>>
    ELSE InsertByDelay(SortByDelay(SubSeq(q, 1, Len(q) - 1)), q[Len(q)])

\* the queues prepareParticlesForClass(className) can return
PrepareParticlesForClass(links, className) ==
    LET slots == LinkSlots(links, ActiveLinks(links, className))
    IN  { SortByDelay([k \in 1..Len(slots) |->
                          [link |-> slots[k],
                           spawnDelay |-> draws[k][1],
                           initialProgress |-> draws[k][2]]]) :
            draws \in [1..Len(slots) -> DescriptorDraws] }

-----------------------------------------------------------------------------
(* Particle *)

\* new Particle(link, pathGenerator, color, birthTime, initialProgress);
\* id is the descriptor's position in the queue (the object's identity)
NewParticle(queue, k) ==
    [id |-> k, link |-> queue[k].link, progress |-> queue[k].initialProgress,
     age |-> 0]      \* observation: frame time accumulated by update calls

\* mutant: the particle moves at half the speed
UpdateProgressHalfSpeed(progress, deltaTime) ==
    progress + (ProgressScale \div (2 * speedDenominator)) * deltaTime

\* this.progress += this.speed * deltaTime, speed = 1 / 3000
UpdateProgress(progress, deltaTime) ==
    progress + (ProgressScale \div speedDenominator) * deltaTime

\* particle.update(deltaTime) on one particle
UpdateParticle(p, deltaTime) ==
    [p EXCEPT !.progress = UpdateProgress(@, deltaTime), !.age = @ + deltaTime]

\* mutant: a particle at progress = 1 is kept
IsAliveInclusive(progress) == progress <= ProgressScale

\* return this.progress < 1
IsAlive(progress) == progress < ProgressScale

-----------------------------------------------------------------------------
(* animate: the pieces of one frame *)

\* mutant: a descriptor is ripe only once its delay has been exceeded
CanSpawnStrict(classTimer, spawnDelay) == classTimer > spawnDelay

\* mutant: descriptors are admitted whatever the phase time
CanSpawnAlways(classTimer, spawnDelay) == TRUE

\* if (animationState.classTimer >= particleData.spawnDelay)
CanSpawn(classTimer, spawnDelay) == classTimer >= spawnDelay

\* the while loop over particlesToSpawn: the spawn index it stops at
RECURSIVE AdvanceSpawn(_, _, _)
AdvanceSpawn(queue, spawnIndex, classTimer) ==
    IF spawnIndex < Len(queue) /\ CanSpawn(classTimer, queue[spawnIndex + 1].spawnDelay)
    THEN AdvanceSpawn(queue, spawnIndex + 1, classTimer)
    ELSE spawnIndex

\* particles.filter(particle => { alive = particle.update(deltaTime); ... return alive })
UpdateAndFilter(particles, deltaTime) ==
    SelectSeq([k \in 1..Len(particles) |-> UpdateParticle(particles[k], deltaTime)],
              LAMBDA p : IsAlive(p.progress))

totalPhaseDuration == spawnWindow + particleDuration + waitAfterParticles

\* mutant: a class moves on only after it has spawned something
ShouldAdvanceNonEmptyOnly(spawnIndex, queueLen, classTimer) ==
    spawnIndex >= queueLen /\ spawnIndex > 0 /\ classTimer >= totalPhaseDuration

\* mutant: the class moves on as soon as one travel time has passed
ShouldAdvanceAfterTravelOnly(spawnIndex, queueLen, classTimer) ==
    spawnIndex >= queueLen /\ classTimer >= particleDuration

\* mutant: the spawn window is left out of the phase duration
ShouldAdvanceNoSpawnWindow(spawnIndex, queueLen, classTimer) ==
    spawnIndex >= queueLen /\ classTimer >= particleDuration + waitAfterParticles

\* if (allParticlesSpawned && animationState.classTimer >= totalPhaseDuration)
ShouldAdvance(spawnIndex, queueLen, classTimer) ==
    spawnIndex >= queueLen /\ classTimer >= totalPhaseDuration

\* mutants: the index is not wrapped; a class is skipped
NextClassIndexNoWrap(currentClassIndex) == currentClassIndex + 1
NextClassIndexSkip(currentClassIndex) == (currentClassIndex + 2) % Len(CLASS_ORDER)

\* (currentClassIndex + 1) % CLASS_ORDER.length
NextClassIndex(currentClassIndex) == (currentClassIndex + 1) % Len(CLASS_ORDER)

\* spawn counts of an activation, per link of the dataset
NoneSpawned(links) == [k \in 1..Len(links) |-> 0]
CountSpawned(spawned, queue, from, to) ==
    [l \in DOMAIN spawned |->
        spawned[l] + Cardinality({k \in (from + 1)..to : queue[k].link = l})]

NoActivation == [classIndex |-> -1, spawned |-> <<>>, classTimer |-> 0,
                 spawnIndex |-> 0, queueLen |-> 0, live |-> 0]

\* the rank orders nodeSort compares names against
subjectiveOrder == <<"lower", "working", "lowerMiddle", "middle", "upperMiddle", "upper">>
objectiveOrder == <<"low", "midLow", "mid", "midHigh", "high">>

\* Array.from(nodeSet): every source and target name of data.links, each once,
\* in order of first appearance
RECURSIVE NodeNames(_, _)
NodeNames(links, seen) ==
    IF links = <<>> THEN seen
    ELSE LET has(q, n) == \E k \in 1..Len(q) : q[k] = n
             withSource == IF has(seen, Head(links).source) THEN seen
                           ELSE Append(seen, Head(links).source)
             withTarget == IF has(withSource, Head(links).target) THEN withSource
                           ELSE Append(withSource, Head(links).target)
         IN  NodeNames(Tail(links), withTarget)

\* the layout's width of a link: d3-sankey sets link.width = link.value * ky
\* with one positive scale ky for the whole graph
LinkWidth(link) == link.value * LayoutScale

\* .attr('stroke-width', d => Math.max(1, d.width))
StrokeWidth(width) == IF width > 1 THEN width ELSE 1

\* mutant: every band is given full opacity
OpacityOfAllFull(sourceName, activeClass) == fullOpacity

\* d => sourceName === activeClass ? 1.0 : 0.2, the value set (at render) or
\* the target of the 500 ms transition (in animate)
OpacityOf(sourceName, activeClass) ==
    IF sourceName = activeClass THEN fullOpacity ELSE dimOpacity

\* linkGroup.attr('opacity', ...) over all bands
Emphasis(links, activeClass) ==
    [l \in 1..Len(links) |-> OpacityOf(links[l].source, activeClass)]

\* mutant: the canvas keeps what earlier frames drew
ClearRectSkipped(drawn) == drawn

\* ctx.clearRect(-margin.left, -margin.top, canvas.width, canvas.height)
ClearRect(drawn) == <<>>

\* the state object and closure variables right after renderAnimatedSankeyDiagram
FreshState(year, links, queue) ==
    [ year |-> year,
      links |-> links,
      nodes |-> NodeNames(links, <<>>),
      indicator |-> ClassAt(0),
      opacity |-> Emphasis(links, ClassAt(0)),
      strokeWidth |-> [l \in 1..Len(links) |-> StrokeWidth(LinkWidth(links[l]))],
      isAnimating |-> TRUE,
      currentClassIndex |-> 0,
      classTimer |-> 0,
      particles |-> <<>>,
      particlesToSpawn |-> queue,
      spawnIndex |-> 0,
      lastTimeIsNow |-> TRUE,     \* lastTime = performance.now(), no frame yet
      spawned |-> NoneSpawned(links),     \* observation: pushes of this activation
      lastActivation |-> NoActivation,    \* observation: the activation the last frame
                                          \* completed, as it stood before the reset
      drawn |-> <<>>,                     \* observation: ids drawn by the last frame
      samplingFailed |-> 0 ]              \* observation: id of the particle whose curve
                                          \* gave no proper point in the last frame

\* the frame of a running loop with the given deltaTime and, on a transition,
\* the queue prepared for the next class
FrameResult(st, deltaTime, nextQueue) ==
    LET classTimer == st.classTimer + deltaTime
        spawnIndex == AdvanceSpawn(st.particlesToSpawn, st.spawnIndex, classTimer)
        pushed     == [k \in 1..(spawnIndex - st.spawnIndex) |->
                          NewParticle(st.particlesToSpawn, st.spawnIndex + k)]
        particles  == UpdateAndFilter(st.particles \o pushed, deltaTime)
        spawned    == CountSpawned(st.spawned, st.particlesToSpawn, st.spawnIndex, spawnIndex)
        drawn      == ClearRect(st.drawn) \o [k \in 1..Len(particles) |-> particles[k].id]
        nextClass  == ClassAt(NextClassIndex(st.currentClassIndex))
    IN  IF ShouldAdvance(spawnIndex, Len(st.particlesToSpawn), classTimer)
        THEN [st EXCEPT !.classTimer = 0,
                        !.currentClassIndex = NextClassIndex(@),
                        !.particles = <<>>,
                        !.spawnIndex = 0,
                        !.particlesToSpawn = nextQueue,
                        !.indicator = nextClass,
                        !.opacity = Emphasis(st.links, nextClass),
                        !.lastTimeIsNow = FALSE,
                        !.spawned = NoneSpawned(st.links),
                        !.lastActivation = [classIndex |-> st.currentClassIndex,
                                            spawned |-> spawned,
                                            classTimer |-> classTimer,
                                            spawnIndex |-> spawnIndex,
                                            queueLen |-> Len(st.particlesToSpawn),
                                            live |-> Len(particles)],
                        !.drawn = drawn,
                        !.samplingFailed = 0]
        ELSE [st EXCEPT !.classTimer = classTimer,
                        !.particles = particles,
                        !.spawnIndex = spawnIndex,
                        !.lastTimeIsNow = FALSE,
                        !.spawned = spawned,
                        !.lastActivation = NoActivation,
                        !.drawn = drawn,
                        !.samplingFailed = 0]

\* whether the frame with this deltaTime takes the transition branch
FrameAdvances(st, deltaTime) ==
    LET classTimer == st.classTimer + deltaTime
    IN  ShouldAdvance(AdvanceSpawn(st.particlesToSpawn, st.spawnIndex, classTimer),
                      Len(st.particlesToSpawn), classTimer)

-----------------------------------------------------------------------------
(* The host: panels, loads, frames *)

EmptyHeap == [i \in {} |-> 0]
FreeIds == (1..MaxObjects) \ DOMAIN heap
Drop(f, i) == [j \in DOMAIN f \ {i} |-> f[j]]

Init ==
    /\ activePanel = "none"
    /\ sankeyInitialized = {}
    /\ pendingLoads = [y \in Years |-> 0]
    /\ container \in [Years -> {"empty", "missing"}]
    /\ animationStates = [y \in Years |-> 0]
    /\ heap = EmptyHeap
    /\ rafQueue = <<>>

\* loadAnimatedSankeyDiagram(year): the effect on container and pending requests
LoadEffect(year) ==
    IF container[year] = "missing"
    THEN UNCHANGED <<container, pendingLoads>>
    ELSE /\ container' = [container EXCEPT ![year] = "loading"]
         /\ pendingLoads' = [pendingLoads EXCEPT ![year] = @ + 1]

\* mutant: the per-year flag is not looked at
NeedsLoadAlways(year) == TRUE

\* if (!window.sankeyInitialized[year])
NeedsLoad(year) == year \notin sankeyInitialized

\* showPanel(panelId) with initializePanelContent(panelId): DOMContentLoaded,
\* a nav-link click or a hashchange
ShowPanel(p) ==
    /\ activePanel' = p
    /\ IF \E y \in Years : p = YearPanel(y) /\ NeedsLoad(y)
       THEN \E y \in Years :
               /\ p = YearPanel(y)
               /\ pendingLoads[y] < MaxPendingLoads
               /\ LoadEffect(y)
               /\ sankeyInitialized' = sankeyInitialized \cup {y}
       ELSE UNCHANGED <<sankeyInitialized, container, pendingLoads>>
    /\ UNCHANGED <<animationStates, heap, rafQueue>>

\* window.loadAnimatedSankeyDiagram(year) called by the host directly
HostLoad(year) ==
    /\ pendingLoads[year] < MaxPendingLoads
    /\ LoadEffect(year)
    /\ UNCHANGED <<activePanel, sankeyInitialized, animationStates, heap, rafQueue>>

\* mutant: the existing loop's flag is left set
StopExistingSkipped(h, year) == h

\* if (animationStates[year]) animationStates[year].isAnimating = false
StopExisting(h, year) ==
    IF animationStates[year] # 0
    THEN [h EXCEPT ![animationStates[year]].isAnimating = FALSE]
    ELSE h

\* what render leaves in the container: a wrapper div as wide as
\* container.clientWidth, holding the svg and the canvas
Diagram(clientWidth) == IF clientWidth > 0 THEN "diagram" ELSE "diagramZeroWidth"

\* d3.json(...).then(data => renderAnimatedSankeyDiagram(container, data, year)),
\* clientWidth being the container's width when render reads it
LoadResolved(year, data, clientWidth) ==
    /\ pendingLoads[year] > 0
    /\ FreeIds # {}
    /\ LET id == CHOOSE i \in FreeIds : \A j \in FreeIds : i <= j
       IN  \E queue \in PrepareParticlesForClass(data, ClassAt(0)) :
              /\ heap' = [i \in DOMAIN heap \cup {id} |->
                            IF i = id THEN FreshState(year, data, queue)
                            ELSE StopExisting(heap, year)[i]]
              /\ animationStates' = [animationStates EXCEPT ![year] = id]
              /\ container' = [container EXCEPT ![year] = Diagram(clientWidth)]
              /\ rafQueue' = Append(rafQueue, id)
    /\ pendingLoads' = [pendingLoads EXCEPT ![year] = @ - 1]
    /\ UNCHANGED <<activePanel, sankeyInitialized>>

\* d3.json(...).catch(error => ...)
LoadFailed(year) ==
    /\ pendingLoads[year] > 0
    /\ pendingLoads' = [pendingLoads EXCEPT ![year] = @ - 1]
    /\ container' = [container EXCEPT ![year] = "error"]
    /\ UNCHANGED <<activePanel, sankeyInitialized, animationStates, heap, rafQueue>>

\* mutant: the flag is not looked at
LoopStoppedIgnored(st) == FALSE

\* if (!animationState.isAnimating) return
LoopStopped(st) == ~st.isAnimating

\* animate(currentTime), the callback at the head of the host's list, for a
\* loop whose flag is cleared: it returns, and nothing refers to the closure any more
AnimateStopped ==
    /\ rafQueue # <<>>
    /\ LoopStopped(heap[Head(rafQueue)])
    /\ rafQueue' = Tail(rafQueue)
    /\ heap' = Drop(heap, Head(rafQueue))
    /\ UNCHANGED <<activePanel, sankeyInitialized, pendingLoads, container, animationStates>>

\* mutant: the callback does not request the next frame
RescheduleDropped(queue, id) == Tail(queue)

\* the host's list once the callback at its head has run and has called
\* requestAnimationFrame(animate)
Reschedule(queue, id) == Append(Tail(queue), id)

\* animate(currentTime) for a running loop, ending with requestAnimationFrame(animate)
Animate(deltaTime) ==
    /\ rafQueue # <<>>
    /\ LET id == Head(rafQueue)
           st == heap[id]
       IN  /\ ~LoopStopped(st)
           /\ (deltaTime >= 0 \/ st.lastTimeIsNow)
           /\ \E nextQueue \in
                  (IF FrameAdvances(st, deltaTime)
                   THEN PrepareParticlesForClass(
                            st.links, ClassAt(NextClassIndex(st.currentClassIndex)))
                   ELSE {<<>>}) :
                 heap' = [heap EXCEPT ![id] = FrameResult(st, deltaTime, nextQueue)]
           /\ rafQueue' = Reschedule(rafQueue, id)
    /\ UNCHANGED <<activePanel, sankeyInitialized, pendingLoads, container, animationStates>>

Next ==
    \/ \E p \in Panels : ShowPanel(p)
    \/ \E y \in Years : HostLoad(y)
    \/ \E y \in Years, data \in HostDataSets, w \in ClientWidths :
          LoadResolved(y, data, w)
    \/ \E y \in Years : LoadFailed(y)
    \/ AnimateStopped
    \/ \E d \in HostFrameDeltas : Animate(d)

Spec == Init /\ [][Next]_vars

-----------------------------------------------------------------------------
(* One session: the page opened on a year's panel, its data loaded and      *)
(* rendered, and from then on only the frame loop runs.                     *)

SessionStart(dataSets) ==
    \E y \in Years, data \in dataSets :
       \E queue \in PrepareParticlesForClass(data, ClassAt(0)) :
          /\ activePanel = YearPanel(y)
          /\ sankeyInitialized = {y}
          /\ pendingLoads = [z \in Years |-> 0]
          /\ container = [z \in Years |-> IF z = y THEN "diagram" ELSE "empty"]
          /\ animationStates = [z \in Years |-> IF z = y THEN 1 ELSE 0]
          /\ heap = [i \in {1} |-> FreshState(y, data, queue)]
          /\ rafQueue = <<1>>

SessionInit == SessionStart(SessionDataSets)

SessionNext == \E d \in SessionFrameDeltas : Animate(d)

SessionSpec == SessionInit /\ [][SessionNext]_vars

\* The same session under the host's scheduling: frames keep being delivered
\* and their timestamps increase, so a frame with deltaTime > 0 always comes.
FairSessionInit == SessionStart(FairDataSets)
FrameTimeAdvances == \E d \in {x \in SessionFrameDeltas : x > 0} : Animate(d)
FairSessionSpec ==
    FairSessionInit /\ [][SessionNext]_vars /\ WF_vars(FrameTimeAdvances)

\* The frame in which particle.draw raises for the k-th particle handed to the
\* filter callback: timer and cursor are already advanced, the new particles are
\* already pushed, particles 1..k are already updated; the filter's result is
\* never assigned and nothing after the filter runs.
ThrownFrameResult(st, deltaTime, k) ==
    LET classTimer == st.classTimer + deltaTime
        spawnIndex == AdvanceSpawn(st.particlesToSpawn, st.spawnIndex, classTimer)
        pushed     == [j \in 1..(spawnIndex - st.spawnIndex) |->
                          NewParticle(st.particlesToSpawn, st.spawnIndex + j)]
        all        == st.particles \o pushed
        visited    == UpdateAndFilter(SubSeq(all, 1, k - 1), deltaTime)
    IN  [st EXCEPT !.classTimer = classTimer,
                   !.spawnIndex = spawnIndex,
                   !.particles = [j \in 1..Len(all) |->
                                     IF j <= k
                                     THEN UpdateParticle(all[j], deltaTime)
                                     ELSE all[j]],
                   !.lastTimeIsNow = FALSE,
                   !.spawned = CountSpawned(st.spawned, st.particlesToSpawn,
                                            st.spawnIndex, spawnIndex),
                   !.lastActivation = NoActivation,
                   !.drawn = ClearRect(st.drawn)
                                \o [j \in 1..Len(visited) |-> visited[j].id],
                   !.samplingFailed = all[k].id]

\* particles the filter callback would hand to draw in this frame
DrawCalls(st, deltaTime) ==
    LET classTimer == st.classTimer + deltaTime
        spawnIndex == AdvanceSpawn(st.particlesToSpawn, st.spawnIndex, classTimer)
        n          == Len(st.particles) + (spawnIndex - st.spawnIndex)
        progressAt(j) == IF j <= Len(st.particles)
                         THEN st.particles[j].progress
                         ELSE NewParticle(st.particlesToSpawn,
                                          st.spawnIndex + j - Len(st.particles)).progress
    IN  {j \in 1..n : IsAlive(UpdateProgress(progressAt(j), deltaTime))}

\* animate(currentTime) when a DOM call inside particle.draw raises: the
\* exception leaves animate before requestAnimationFrame(animate)
AnimateThrows(deltaTime) ==
    /\ rafQueue # <<>>
    /\ LET id == Head(rafQueue)
           st == heap[id]
       IN  /\ ~LoopStopped(st)
           /\ (deltaTime >= 0 \/ st.lastTimeIsNow)
           /\ \E k \in DrawCalls(st, deltaTime) :
                 heap' = [heap EXCEPT ![id] = ThrownFrameResult(st, deltaTime, k)]
           /\ rafQueue' = Tail(rafQueue)
    /\ UNCHANGED <<activePanel, sankeyInitialized, pendingLoads, container, animationStates>>

\* animate(currentTime) when the curve of a drawn particle is degenerate and
\* the DOM calls return: getPointAtProgress wraps whatever getPointAtLength
\* gives into { x, y }, which is never falsy, so the particle is drawn at
\* that point and the frame goes on as usual
AnimateDegenerate(deltaTime) ==
    /\ rafQueue # <<>>
    /\ LET id == Head(rafQueue)
           st == heap[id]
       IN  /\ ~LoopStopped(st)
           /\ (deltaTime >= 0 \/ st.lastTimeIsNow)
           /\ \E nextQueue \in
                  (IF FrameAdvances(st, deltaTime)
                   THEN PrepareParticlesForClass(
                            st.links, ClassAt(NextClassIndex(st.currentClassIndex)))
                   ELSE {<<>>}) :
                 LET result == FrameResult(st, deltaTime, nextQueue)
                 IN  \E k \in 1..Len(result.drawn) :
                        heap' = [heap EXCEPT ![id] =
                                    [result EXCEPT !.samplingFailed = result.drawn[k]]]
           /\ rafQueue' = Reschedule(rafQueue, id)
    /\ UNCHANGED <<activePanel, sankeyInitialized, pendingLoads, container, animationStates>>

\* The session on a host where the curve of a particle may be degenerate: the
\* SVG path calls (getTotalLength, getPointAtLength) then raise or return a
\* point, depending on the browser.
FaultySessionNext ==
    \/ \E d \in SessionFrameDeltas : Animate(d)
    \/ \E d \in SessionFrameDeltas : AnimateThrows(d)
    \/ \E d \in SessionFrameDeltas : AnimateDegenerate(d)

FaultySessionSpec == SessionInit /\ [][FaultySessionNext]_vars

-----------------------------------------------------------------------------
(* Vocabulary of the properties *)

RECURSIVE SumSeq(_)
SumSeq(f) == IF f = <<>> THEN 0 ELSE Head(f) + SumSeq(Tail(f))

\* sum of link.value over the links whose source is class c
WeightOfClass(links, c) ==
    SumSeq([k \in 1..Len(links) |-> IF links[k].source = c THEN links[k].value ELSE 0])

\* particles spawned on links that end in target category t
ReceivedBy(links, spawned, t) ==
    SumSeq([k \in 1..Len(links) |-> IF links[k].target = t THEN spawned[k] ELSE 0])

ActiveClass(st) == ClassAt(st.currentClassIndex)
Completed(st) == st.lastActivation.classIndex # -1
CompletedClass(st) == ClassAt(st.lastActivation.classIndex)
LiveIds(st) == {st.particles[k].id : k \in 1..Len(st.particles)}
CallbacksOf(i) == Cardinality({k \in 1..Len(rafQueue) : rafQueue[k] = i})
Drained(st) == st.spawnIndex >= Len(st.particlesToSpawn)

ProgressOf(st, id) ==
    LET k == CHOOSE k \in 1..Len(st.particles) : st.particles[k].id = id
    IN  st.particles[k].progress

\* the objects whose loop ran a frame in this step
FrameRan(i) ==
    /\ i \in DOMAIN heap /\ i \in DOMAIN heap'
    /\ heap[i].isAnimating /\ heap'[i].isAnimating
    /\ heap'[i] # heap[i]
\* whether that frame moved to another class
Moved(i) == heap'[i].currentClassIndex # heap[i].currentClassIndex
\* the phase time the frame reached after adding its deltaTime
TimerReached(i) ==
    IF Moved(i) THEN heap'[i].lastActivation.classTimer ELSE heap'[i].classTimer
FrameDelta(i) == TimerReached(i) - heap[i].classTimer
\* the spawn index the frame reached after its spawn loop
IndexReached(i) ==
    IF Moved(i) THEN heap'[i].lastActivation.spawnIndex ELSE heap'[i].spawnIndex

-----------------------------------------------------------------------------
(* C1 *)

\* C1: for every category C and every full activation of C, the number of
\* particles the frame loop spawned from the moment C became active to the
\* transition away from it equals the sum of link.value over the links whose
\* source is C.
C1_SpawnedEqualsClassWeight ==
    \A i \in DOMAIN heap :
        Completed(heap[i]) =>
            SumSeq(heap[i].lastActivation.spawned)
                = WeightOfClass(heap[i].links, CompletedClass(heap[i]))

\* the activation of 'lower' over DataA (links of weight 2 and 1) has just ended
C1_Witness ==
    \E i \in DOMAIN heap :
        /\ heap[i].links = DataA
        /\ heap[i].lastActivation.classIndex = 0
        /\ SumSeq(heap[i].lastActivation.spawned) = 3

(* C2 *)

\* C2: while category C is active no particle is spawned on a link whose
\* source is another category, so a target category reached only by links of
\* other sources receives none; and over the whole activation every link L
\* with source C has spawned exactly L.value particles.
C2_SpawnedPerLink ==
    \A i \in DOMAIN heap :
        LET st == heap[i]
            links == st.links
            done == st.lastActivation
        IN  /\ \A l \in 1..Len(links) :
                  /\ links[l].source # ActiveClass(st) => st.spawned[l] = 0
                  /\ st.spawned[l] <= links[l].value
            /\ \A t \in {links[l].target : l \in 1..Len(links)} :
                  (\A l \in 1..Len(links) :
                      links[l].target = t => links[l].source # ActiveClass(st))
                  => ReceivedBy(links, st.spawned, t) = 0
            /\ Completed(st) =>
                  \A l \in 1..Len(links) :
                      done.spawned[l] = IF links[l].source = CompletedClass(st)
                                        THEN links[l].value ELSE 0

\* 'working' is active over DataA and has spawned its particle on working->low,
\* while target 'high' is reached only from 'lower'
C2_Witness ==
    \E i \in DOMAIN heap :
        /\ heap[i].links = DataA
        /\ heap[i].currentClassIndex = 1
        /\ heap[i].spawned = <<0, 0, 1>>
        /\ ReceivedBy(DataA, heap[i].spawned, "high") = 0

(* C3 *)

\* C3: after any sequence of render calls for a session key, whatever the order
\* in which the loads resolved, exactly one loop instance of that key has its
\* flag set, it is the one animationStates[key] refers to, and every instance
\* has exactly one frame callback requested; before the first render there is none.
C3_OneActiveLoopPerKey ==
    \A y \in Years :
        LET objects == {i \in DOMAIN heap : heap[i].year = y}
        IN  /\ animationStates[y] = 0 => objects = {}
            /\ animationStates[y] # 0 =>
                  {i \in objects : heap[i].isAnimating} = {animationStates[y]}
            /\ \A i \in objects : CallbacksOf(i) = 1

\* a second render has replaced a loop whose last callback has not run yet
C3_Witness ==
    \E i, j \in DOMAIN heap :
        /\ i # j /\ heap[i].year = heap[j].year
        /\ ~heap[i].isAnimating /\ heap[j].isAnimating
        /\ animationStates[heap[j].year] = j

(* C4 *)

\* C4: once a loop instance's flag is cleared, every step either leaves the
\* instance exactly as it is, or is its next callback, which returns at once:
\* timer, queue, particles, overlay and every other object are untouched, no
\* callback is requested for it, and the instance is never seen running again.
C4_StoppedLoopNeverRuns ==
    [][ \A i \in DOMAIN heap :
            ~heap[i].isAnimating =>
                \/ /\ i \in DOMAIN heap'
                   /\ heap'[i] = heap[i]
                   /\ CallbacksOf(i)' = CallbacksOf(i)
                \/ /\ i \notin DOMAIN heap'
                   /\ CallbacksOf(i)' = 0
                   /\ \A j \in DOMAIN heap \ {i} : j \in DOMAIN heap' /\ heap'[j] = heap[j]
                   /\ UNCHANGED <<animationStates, container>> ]_vars

\* the first loop was replaced and its last callback has returned
C4_Witness ==
    /\ 1 \notin DOMAIN heap
    /\ 2 \in DOMAIN heap
    /\ heap[2].isAnimating

(* C5 *)

\* C5: when the host leaves a year's panel, the flag of that year's running
\* loop instance is cleared by that step.
C5_LeavingViewStopsLoop ==
    [][ \A y \in Years :
            (/\ activePanel = YearPanel(y)
             /\ activePanel' # YearPanel(y)
             /\ animationStates[y] # 0
             /\ heap[animationStates[y]].isAnimating)
            => (/\ animationStates[y] \in DOMAIN heap'
                /\ ~heap'[animationStates[y]].isAnimating) ]_vars

(* C6 *)

\* C6: in every reachable state every session's currentClassIndex is a valid
\* index of CLASS_ORDER, 0 <= index < CLASS_ORDER.length.
C6_ClassIndexValid ==
    \A i \in DOMAIN heap :
        heap[i].currentClassIndex \in 0..(Len(CLASS_ORDER) - 1)

\* the transition away from the last class has wrapped to the first
C6_Witness ==
    \E i \in DOMAIN heap :
        /\ heap[i].currentClassIndex = 0
        /\ heap[i].lastActivation.classIndex = Len(CLASS_ORDER) - 1

(* C7 *)

\* C7: a frame moves to the next class exactly when, after its spawn and
\* update steps, the phase time is >= 2000 + 3000 + 2000 ms and the spawn
\* queue is fully drained; the move empties the live collection, sets the
\* phase timer and the spawn cursor to 0 and installs a queue made for the
\* new class (one descriptor per sample of each of its links, no other).
C7_TransitionRule ==
    [][ \A i \in DOMAIN heap :
            FrameRan(i) =>
                LET st == heap[i]
                    nx == heap'[i]
                    due == /\ TimerReached(i) >= 2000 + 3000 + 2000
                           /\ IndexReached(i) >= Len(st.particlesToSpawn)
                IN  /\ Moved(i) <=> due
                    /\ Moved(i) =>
                          /\ nx.particles = <<>>
                          /\ nx.classTimer = 0
                          /\ nx.spawnIndex = 0
                          /\ Len(nx.particlesToSpawn)
                                = WeightOfClass(nx.links, ActiveClass(nx))
                          /\ \A k \in 1..Len(nx.particlesToSpawn) :
                                nx.links[nx.particlesToSpawn[k].link].source
                                    = ActiveClass(nx)
                    /\ ~Moved(i) => nx.particlesToSpawn = st.particlesToSpawn ]_vars

\* a frame reached exactly 7000 ms with the queue drained and moved to a class
\* that has particles to spawn
C7_Witness ==
    \E i \in DOMAIN heap :
        /\ heap[i].lastActivation.classIndex # -1
        /\ heap[i].lastActivation.classTimer = 7000
        /\ heap[i].lastActivation.queueLen > 0
        /\ heap[i].classTimer = 0
        /\ heap[i].spawnIndex = 0
        /\ Len(heap[i].particlesToSpawn) > 0

(* C8 *)

\* C8: a session starts on the first class of CLASS_ORDER, and every step
\* leaves its class index unchanged or moves it from i to (i + 1) mod N.
C8_RankOrderCycle ==
    [][ \A i \in DOMAIN heap' :
            IF i \in DOMAIN heap
            THEN \/ heap'[i].currentClassIndex = heap[i].currentClassIndex
                 \/ heap'[i].currentClassIndex
                       = (heap[i].currentClassIndex + 1) % Len(CLASS_ORDER)
            ELSE heap'[i].currentClassIndex = 0 ]_vars

\* a session that has just moved from the first class to the second
C8_Witness ==
    \E i \in DOMAIN heap :
        /\ heap[i].currentClassIndex = 1
        /\ heap[i].lastActivation.classIndex = 0

(* C9 *)

\* C9: in every frame that updates a particle the deltaTime is >= 0, and the
\* progress of every particle after the update is >= its progress before it
\* (its initial progress, for a particle spawned in that frame), also when the
\* loop's first deltaTime, measured from performance.now() at render, is negative.
C9_ProgressMonotonic ==
    [][ \A i \in DOMAIN heap :
            FrameRan(i) =>
                LET st == heap[i]
                    nx == heap'[i]
                IN  /\ (st.particles # <<>> \/ IndexReached(i) > st.spawnIndex)
                          => FrameDelta(i) >= 0
                    /\ \A k \in 1..Len(nx.particles) :
                          LET p == nx.particles[k]
                          IN  IF p.id \in LiveIds(st)
                              THEN p.progress >= ProgressOf(st, p.id)
                              ELSE p.progress >= st.particlesToSpawn[p.id].initialProgress ]_vars

\* the first frame had a negative deltaTime (phase time 600 = -1000 + 1600) and a
\* particle spawned after it has been moved forward
C9_Witness ==
    \E i \in DOMAIN heap :
        /\ heap[i].classTimer = 600
        /\ \E k \in 1..Len(heap[i].particles) :
              heap[i].particles[k].progress
                 > heap[i].particlesToSpawn[heap[i].particles[k].id].initialProgress

(* C10 *)

\* every live particle is in the collection once, with progress below 1
C10_LiveBelowOne ==
    \A i \in DOMAIN heap :
        /\ Cardinality(LiveIds(heap[i])) = Len(heap[i].particles)
        /\ \A k \in 1..Len(heap[i].particles) :
              heap[i].particles[k].progress < ProgressScale

\* a particle leaves the collection only in a frame whose update brings its
\* progress to >= 1, and a spawned particle that has left is never back
C10_LeavesOnceAtCompletion ==
    \A i \in DOMAIN heap :
        FrameRan(i) =>
            LET st == heap[i]
                nx == heap'[i]
                done(progress) ==
                    progress * 3000 + ProgressScale * FrameDelta(i) >= ProgressScale * 3000
            IN  /\ \A k \in 1..Len(st.particles) :
                      st.particles[k].id \notin LiveIds(nx) => done(st.particles[k].progress)
                /\ \A id \in (st.spawnIndex + 1)..IndexReached(i) :
                      id \notin LiveIds(nx) => done(st.particlesToSpawn[id].initialProgress)
                /\ ~Moved(i) =>
                      \A id \in 1..st.spawnIndex :
                          id \notin LiveIds(st) => id \notin LiveIds(nx)

\* C10: every spawned particle leaves the live collection once, in the first
\* frame whose update brings its progress to >= 1, and never re-enters it; and
\* once the queue of the active class is drained, the live particle count
\* eventually reaches 0.
C10_RemovedOnceThenEmpty ==
    /\ []C10_LiveBelowOne
    /\ [][C10_LeavesOnceAtCompletion]_vars
    /\ \A y \in Years :
          (animationStates[y] # 0 /\ Drained(heap[animationStates[y]]))
             ~> (animationStates[y] # 0 /\ heap[animationStates[y]].particles = <<>>)

\* every particle of the active class was spawned and has completed its path
\* before the class's time is over
C10_Witness ==
    \E i \in DOMAIN heap :
        /\ heap[i].spawnIndex > 0
        /\ Drained(heap[i])
        /\ heap[i].particles = <<>>
        /\ heap[i].classTimer < 7000

(* C11 *)

\* C11: while frames keep being delivered and the flag stays set, every
\* frame leaves the loop's callback requested again, and every category of
\* CLASS_ORDER is the active one infinitely often.
C11_CyclesForEver ==
    /\ [](\A i \in DOMAIN heap : heap[i].isAnimating => CallbacksOf(i) = 1)
    /\ \A c \in 0..(Len(CLASS_ORDER) - 1) :
          []<>(\E y \in Years : /\ animationStates[y] # 0
                                /\ heap[animationStates[y]].currentClassIndex = c)

\* the last class of the order is active, its callback requested, after frames ran
C11_Witness ==
    \E i \in DOMAIN heap :
        /\ heap[i].isAnimating
        /\ heap[i].currentClassIndex = Len(CLASS_ORDER) - 1
        /\ heap[i].classTimer > 0
        /\ CallbacksOf(i) = 1

(* C12 *)

\* C12: no error raised while a frame samples or draws a particle halts the
\* loop: after every frame, that one included, a loop whose flag is set has
\* its callback requested again.
C12_LoopSurvivesErrors ==
    \A i \in DOMAIN heap : heap[i].isAnimating => CallbacksOf(i) = 1

(* C13 *)

\* links of a state object that carry weight 0
ZeroWeightLinks(st) == {l \in 1..Len(st.links) : st.links[l].value = 0}

\* no descriptor, no admission and no live particle refers to link l
NoParticleOn(st, l) ==
    /\ \A k \in 1..Len(st.particlesToSpawn) : st.particlesToSpawn[k].link # l
    /\ st.spawned[l] = 0
    /\ \A k \in 1..Len(st.particles) : st.particles[k].link # l

\* C13 (as stated): a link of weight 0 contributes no descriptor and its band
\* is drawn with width zero.
C13_ZeroWeightZeroBand ==
    \A i \in DOMAIN heap : \A l \in ZeroWeightLinks(heap[i]) :
        NoParticleOn(heap[i], l) /\ heap[i].strokeWidth[l] = 0

\* C13 (amended): a link of weight 0 has layout width 0, contributes no
\* descriptor, no admission and no live particle in any activation, and its
\* band is drawn with stroke width max(1, 0) = 1.
C13_ZeroWeightLink ==
    \A i \in DOMAIN heap : \A l \in ZeroWeightLinks(heap[i]) :
        /\ NoParticleOn(heap[i], l)
        /\ LinkWidth(heap[i].links[l]) = 0
        /\ heap[i].strokeWidth[l] = 1

\* the source class of a zero-weight link is the active one, its spawn window is over
C13_Witness ==
    \E i \in DOMAIN heap : \E l \in ZeroWeightLinks(heap[i]) :
        /\ heap[i].links[l].source = ActiveClass(heap[i])
        /\ heap[i].classTimer >= spawnWindow
        /\ heap[i].spawnIndex = Len(heap[i].particlesToSpawn)

(* C14 *)

\* C14: a load whose container is absent, and a render whose container has
\* zero width, are abandoned: no state object is installed for the year, no
\* callback is requested, nothing of the animation changes.
C14_NoSurfaceNoSession ==
    [][\A y \in Years :
          /\ container[y] = "missing" =>
                animationStates'[y] = 0 /\ pendingLoads'[y] = 0
          /\ (pendingLoads'[y] < pendingLoads[y] /\ container'[y] = Diagram(0)) =>
                /\ animationStates'[y] = animationStates[y]
                /\ heap' = heap
                /\ rafQueue' = rafQueue]_vars

(* C15 *)

\* names that appear in one of the two rank orders
RankedNames ==
    {subjectiveOrder[k] : k \in 1..Len(subjectiveOrder)}
        \cup {objectiveOrder[k] : k \in 1..Len(objectiveOrder)}

\* C15: a record whose source or target is in neither rank order produces no
\* node and no band: every node of the layout carries a ranked name and
\* every band belongs to a record with ranked source and target.
C15_UnrankedRecordSkipped ==
    \A i \in DOMAIN heap :
        /\ \A n \in 1..Len(heap[i].nodes) : heap[i].nodes[n] \in RankedNames
        /\ \A l \in DOMAIN heap[i].strokeWidth :
              /\ heap[i].links[l].source \in RankedNames
              /\ heap[i].links[l].target \in RankedNames

(* C16 *)

\* the year's key holds no loop whose flag is set, and no new state object
\* was put in place of the old one
StoppedInPlace(y) ==
    /\ animationStates'[y] = animationStates[y]
    /\ \A i \in DOMAIN heap' : heap'[i].year = y => ~heap'[i].isAnimating

\* C16: the host has a stop operation for every session key: whenever the
\* loop of a year is running, some operation of the host leaves that year's
\* state object in place with its flag cleared (and repeating it changes
\* nothing more).
C16_StopOffered ==
    \A y \in Years :
        (animationStates[y] # 0 /\ heap[animationStates[y]].isAnimating)
            => ENABLED (Next /\ StoppedInPlace(y))

(* C17 *)

\* the order the design document gives, and the social hierarchy from the bottom
DocumentedOrder == <<"working", "lower", "lowerMiddle", "middle", "upperMiddle", "upper">>
HierarchyOrder == <<"lower", "working", "lowerMiddle", "middle", "upperMiddle", "upper">>

\* a session on which no frame has run yet shows the first class of the order
StartsWith(order) ==
    \A i \in DOMAIN heap : heap[i].lastTimeIsNow => ActiveClass(heap[i]) = order[1]

\* every transition goes from a class of the order to the one after it, the
\* last being followed by the first
PlaysInOrder(order) ==
    \A i \in DOMAIN heap :
        (FrameRan(i) /\ Moved(i)) =>
            \E k \in 1..Len(order) :
                /\ ActiveClass(heap[i]) = order[k]
                /\ ActiveClass(heap'[i]) = order[(k % Len(order)) + 1]

QueueSorted(st) ==
    \A k \in 1..(Len(st.particlesToSpawn) - 1) :
        st.particlesToSpawn[k].spawnDelay <= st.particlesToSpawn[k + 1].spawnDelay

\* descriptor k of the queue has been admitted in the current activation
Admitted(st, k) == k <= st.spawnIndex

\* C18: within one activation the queue is sorted by spawn delay, a
\* descriptor with a smaller delay is never still waiting when one with a
\* larger delay has been admitted, and the spawn cursor only moves forward.
C18_AdmittedInDelayOrder ==
    /\ [](\A i \in DOMAIN heap :
            LET st == heap[i]
                q  == st.particlesToSpawn
            IN  /\ QueueSorted(st)
                /\ \A a, b \in 1..Len(q) :
                      (q[a].spawnDelay < q[b].spawnDelay /\ Admitted(st, b))
                          => Admitted(st, a))
    /\ [][\A i \in DOMAIN heap :
            (FrameRan(i) /\ ~Moved(i)) =>
                /\ heap'[i].spawnIndex >= heap[i].spawnIndex
                /\ heap'[i].particlesToSpawn = heap[i].particlesToSpawn]_vars

\* part of a queue with different delays is admitted, the later part is waiting
C18_Witness ==
    \E i \in DOMAIN heap :
        LET st == heap[i]
            q  == st.particlesToSpawn
        IN  /\ 0 < st.spawnIndex /\ st.spawnIndex < Len(q)
            /\ q[st.spawnIndex].spawnDelay < q[st.spawnIndex + 1].spawnDelay
            /\ Len(st.particles) > 0

(* C19 *)

\* a frame of the current activation has already run on this state object
FrameSeen(st) == ~st.lastTimeIsNow /\ ~Completed(st)

\* C19: a frame admits exactly the waiting descriptors whose spawn delay the
\* phase time has reached: each descriptor it admits has delay <= the phase
\* time of this frame and, if an earlier frame of the activation ran, delay >
\* the phase time of that frame; each descriptor it leaves waiting has delay >
\* the phase time of this frame.
C19_AdmittedWhenRipe ==
    [][\A i \in DOMAIN heap :
          FrameRan(i) =>
              LET st == heap[i]
                  q  == st.particlesToSpawn
                  t  == TimerReached(i)
                  n  == IndexReached(i)
              IN  \A k \in 1..Len(q) :
                     /\ (st.spawnIndex < k /\ k <= n) =>
                           /\ q[k].spawnDelay <= t
                           /\ FrameSeen(st) => q[k].spawnDelay > st.classTimer
                     /\ k > n => q[k].spawnDelay > t]_vars

\* after a frame, a descriptor whose delay equals the phase time is admitted
\* while a later one is still waiting
C19_Witness ==
    \E i \in DOMAIN heap :
        LET st == heap[i]
            q  == st.particlesToSpawn
        IN  /\ FrameSeen(st)
            /\ 0 < st.spawnIndex /\ st.spawnIndex < Len(q)
            /\ q[st.spawnIndex].spawnDelay = st.classTimer
            /\ q[st.spawnIndex + 1].spawnDelay > st.classTimer

(* C20 *)

\* C20 (as stated): a frame whose phase time exceeds the spawn window leaves
\* the spawn cursor where it was.
C20_NoSpawnPastWindow ==
    [][\A i \in DOMAIN heap :
          (FrameRan(i) /\ TimerReached(i) > spawnWindow) =>
              IndexReached(i) = heap[i].spawnIndex]_vars

\* C20 (amended): every spawn delay is below the spawn window, so the first
\* frame of an activation whose phase time reaches the window admits all that
\* is still waiting, however far past the window it lands; after a frame
\* with phase time >= the window the queue is drained, and every later frame
\* of the activation leaves the spawn cursor where it was.
C20_DrainedByWindow ==
    /\ [](\A i \in DOMAIN heap :
            LET st == heap[i]
            IN  /\ \A k \in 1..Len(st.particlesToSpawn) :
                      st.particlesToSpawn[k].spawnDelay < spawnWindow
                /\ (FrameSeen(st) /\ st.classTimer >= spawnWindow) => Drained(st))
    /\ [][\A i \in DOMAIN heap :
            (FrameRan(i) /\ FrameSeen(heap[i]) /\ heap[i].classTimer >= spawnWindow) =>
                IndexReached(i) = heap[i].spawnIndex]_vars

\* a frame has landed past the spawn window and the particles it admitted
\* are on their way
C20_Witness ==
    \E i \in DOMAIN heap :
        LET st == heap[i]
        IN  /\ FrameSeen(st)
            /\ st.classTimer > spawnWindow
            /\ st.spawnIndex = Len(st.particlesToSpawn)
            /\ Len(st.particlesToSpawn) > 1
            /\ Len(st.particles) > 0

(* C21 *)

\* C21: in the frame that moves to the next class, the filter has already
\* removed every particle admitted for the outgoing class, so the clearing
\* of the collection discards no particle that is still on its path.
C21_StragglersFinished ==
    \A i \in DOMAIN heap :
        Completed(heap[i]) =>
            /\ heap[i].lastActivation.live = 0
            /\ heap[i].lastActivation.spawnIndex = heap[i].lastActivation.queueLen

\* an activation that admitted several particles has just ended
C21_Witness ==
    \E i \in DOMAIN heap :
        /\ Completed(heap[i])
        /\ heap[i].lastActivation.spawnIndex > 1
        /\ heap[i].lastActivation.live = 0

(* C22 *)

\* ids of the particles a frame hands to update: the live ones and the ones
\* its spawn loop pushes
Updated(i) == LiveIds(heap[i]) \cup ((heap[i].spawnIndex + 1)..IndexReached(i))

\* frame time a particle has accumulated once this frame's update has run
AgeReached(i, id) ==
    LET before == {heap[i].particles[k].age :
                      k \in {j \in 1..Len(heap[i].particles) :
                                heap[i].particles[j].id = id}}
    IN  (IF before = {} THEN 0 ELSE CHOOSE a \in before : TRUE) + FrameDelta(i)

\* progress a particle would have after travelling for age ms at 1/3000 per ms
\* from its initial progress
Travelled(st, id, age) ==
    st.particlesToSpawn[id].initialProgress
        + (ProgressScale \div speedDenominator) * age

\* C22 (as stated): a particle is removed only once it has accumulated the
\* travel time particleDuration since its spawn, and no live particle has
\* accumulated that much.
C22_ExactTravelTime ==
    /\ [](\A i \in DOMAIN heap : \A k \in 1..Len(heap[i].particles) :
            heap[i].particles[k].age < particleDuration)
    /\ [][\A i \in DOMAIN heap :
            (FrameRan(i) /\ ~Moved(i)) =>
                \A id \in Updated(i) \ LiveIds(heap'[i]) :
                    AgeReached(i, id) >= particleDuration]_vars

\* C22 (amended): a particle moves at the constant speed 1/3000 per ms from
\* its initial progress p0 in [0, 0.3): it is removed by the first frame in
\* which p0 + (accumulated frame time, the admitting frame's whole deltaTime
\* included) / 3000 reaches 1, that is after (1 - p0) * 3000 ms, between
\* 2100 ms and 3000 ms, and never later than particleDuration.
C22_TravelTimeFromInitialProgress ==
    /\ [](\A i \in DOMAIN heap : \A k \in 1..Len(heap[i].particles) :
            LET p == heap[i].particles[k]
            IN  /\ p.progress = Travelled(heap[i], p.id, p.age)
                /\ p.age < particleDuration)
    /\ [][\A i \in DOMAIN heap :
            (FrameRan(i) /\ ~Moved(i)) =>
                \A id \in Updated(i) :
                    (id \notin LiveIds(heap'[i]))
                        <=> Travelled(heap[i], id, AgeReached(i, id)) >= ProgressScale]_vars

\* a particle that started ahead on its path is close to its end before it
\* has travelled for particleDuration
C22_Witness ==
    \E i \in DOMAIN heap : \E k \in 1..Len(heap[i].particles) :
        LET p == heap[i].particles[k]
        IN  /\ heap[i].particlesToSpawn[p.id].initialProgress > 0
            /\ p.age > 0
            /\ p.age < particleDuration
            /\ Travelled(heap[i], p.id, p.age + 1000) >= ProgressScale

(* C23 *)

\* C23: in every state of a session the opacity given to a band is 1.0
\* exactly when the link's source is the class at currentClassIndex and 0.2
\* otherwise, and the class indicator names that class.
C23_EmphasisFollowsScheduler ==
    \A i \in DOMAIN heap :
        LET st == heap[i]
        IN  /\ st.indicator = ActiveClass(st)
            /\ \A l \in 1..Len(st.links) :
                  /\ st.links[l].source = ActiveClass(st) => st.opacity[l] = fullOpacity
                  /\ st.links[l].source # ActiveClass(st) => st.opacity[l] = dimOpacity

\* a transition has just moved the emphasis: one band is full, another is dim
C23_Witness ==
    \E i \in DOMAIN heap :
        /\ Completed(heap[i])
        /\ \E l \in 1..Len(heap[i].links) : heap[i].opacity[l] = fullOpacity
        /\ \E l \in 1..Len(heap[i].links) : heap[i].opacity[l] = dimOpacity

(* C24 *)

\* C24: a frame that does not move to another class leaves the indicator,
\* the band opacities and widths and the nodes as they were, and every frame
\* leaves on the canvas exactly the particles that survived its update.
C24_OverlayWrittenOnTransitionOnly ==
    [][\A i \in DOMAIN heap :
          FrameRan(i) =>
              /\ ~Moved(i) =>
                    /\ heap'[i].indicator = heap[i].indicator
                    /\ heap'[i].opacity = heap[i].opacity
                    /\ heap'[i].strokeWidth = heap[i].strokeWidth
                    /\ heap'[i].nodes = heap[i].nodes
                    /\ Len(heap'[i].drawn) = Len(heap'[i].particles)
              /\ \A k \in 1..Len(heap'[i].drawn) :
                    Cardinality({j \in 1..Len(heap'[i].drawn) :
                                    heap'[i].drawn[j] = heap'[i].drawn[k]}) = 1
              /\ ~Moved(i) => {heap'[i].drawn[k] : k \in 1..Len(heap'[i].drawn)}
                                 = LiveIds(heap'[i])]_vars

\* frames of one activation have drawn particles twice in a row, the
\* emphasis being on the active class
C24_Witness ==
    \E i \in DOMAIN heap :
        /\ FrameSeen(heap[i])
        /\ heap[i].classTimer > 1000
        /\ Len(heap[i].drawn) > 1
        /\ \E l \in 1..Len(heap[i].links) : heap[i].opacity[l] = fullOpacity

(* C25 *)

\* ids the last frame drew
DrawnIds(st) == {st.drawn[k] : k \in 1..Len(st.drawn)}

\* C25: after a frame in which the curve of a particle gave no proper point,
\* that particle has not been drawn, is still in the live collection, and
\* the loop's callback is requested so that it is sampled again.
C25_DegenerateSkippedAndRetried ==
    \A i \in DOMAIN heap :
        heap[i].samplingFailed # 0 =>
            /\ heap[i].samplingFailed \notin DrawnIds(heap[i])
            /\ (Completed(heap[i]) \/ heap[i].samplingFailed \in LiveIds(heap[i]))
            /\ CallbacksOf(i) = 1

(* C26 *)

\* C26: every descriptor carries an initial progress in [0, 0.3), every
\* particle of the live collection has progress in [0, 1) and at least its
\* initial progress, and the particles the last frame drew are live ones, so
\* none was drawn at progress >= 1.
C26_ProgressRanges ==
    \A i \in DOMAIN heap :
        LET st == heap[i]
        IN  /\ \A k \in 1..Len(st.particlesToSpawn) :
                  /\ 0 <= st.particlesToSpawn[k].initialProgress
                  /\ 10 * st.particlesToSpawn[k].initialProgress < 3 * ProgressScale
            /\ \A k \in 1..Len(st.particles) :
                  /\ st.particlesToSpawn[st.particles[k].id].initialProgress
                        <= st.particles[k].progress
                  /\ st.particles[k].progress < ProgressScale
            /\ ~Completed(st) => DrawnIds(st) \subseteq LiveIds(st)

\* a particle that started ahead on its path has been drawn past 0.3
C26_Witness ==
    \E i \in DOMAIN heap : \E k \in 1..Len(heap[i].particles) :
        LET p == heap[i].particles[k]
        IN  /\ heap[i].particlesToSpawn[p.id].initialProgress > 0
            /\ 10 * p.progress > 3 * ProgressScale
            /\ p.id \in DrawnIds(heap[i])

(* C27 *)

\* C27: a frame whose phase time is >= 2000 ms ends its spawn loop with the
\* queue drained; a frame moves to the next class exactly when its phase time
\* is >= 7000 ms, so in the first such frame of an activation; it then moves
\* by one class only, and the activation it ends has lasted >= 7000 ms.
C27_DrainNeverDelaysTransition ==
    [][\A i \in DOMAIN heap :
          FrameRan(i) =>
              /\ TimerReached(i) >= spawnWindow =>
                    IndexReached(i) = Len(heap[i].particlesToSpawn)
              /\ Moved(i) <=> TimerReached(i) >= totalPhaseDuration
              /\ Moved(i) =>
                    /\ heap'[i].currentClassIndex
                          = (heap[i].currentClassIndex + 1) % Len(CLASS_ORDER)
                    /\ heap'[i].classTimer = 0
                    /\ heap'[i].lastActivation.classTimer >= totalPhaseDuration
              /\ ~Moved(i) => heap'[i].classTimer < totalPhaseDuration]_vars

\* an activation with particles has ended in the frame that reached 7000 ms exactly
C27_Witness ==
    \E i \in DOMAIN heap :
        /\ Completed(heap[i])
        /\ heap[i].lastActivation.classTimer = totalPhaseDuration
        /\ heap[i].lastActivation.queueLen > 0

(* C28 *)

\* C28: in every state 0 <= spawnIndex <= length of the queue, there are at
\* most spawnIndex live particles, each one admitted from the current queue,
\* and each bound to a link whose source is the active class.
C28_CursorAndLiveBounds ==
    \A i \in DOMAIN heap :
        LET st == heap[i]
        IN  /\ 0 <= st.spawnIndex
            /\ st.spawnIndex <= Len(st.particlesToSpawn)
            /\ Len(st.particles) <= st.spawnIndex
            /\ \A k \in 1..Len(st.particles) :
                  /\ st.particles[k].id \in 1..st.spawnIndex
                  /\ st.particles[k].link = st.particlesToSpawn[st.particles[k].id].link
                  /\ st.links[st.particles[k].link].source = ActiveClass(st)

\* in a later class of the cycle, some admitted particles are gone, some are
\* live, some descriptors are waiting
C28_Witness ==
    \E i \in DOMAIN heap :
        LET st == heap[i]
        IN  /\ st.currentClassIndex > 0
            /\ 0 < Len(st.particles)
            /\ Len(st.particles) < st.spawnIndex

(* C29 *)

\* the active class is the source of no link, or of zero-weight links only
EmptyActive(st) == WeightOfClass(st.links, ActiveClass(st)) = 0

\* C29: while a class without samples is active its queue and its live
\* collection are empty and nothing is admitted; a frame leaves it exactly
\* when the phase time has reached 7000 ms, and then for the next class of
\* the order.
C29_EmptyClassTakesItsTurn ==
    /\ [](\A i \in DOMAIN heap :
            EmptyActive(heap[i]) =>
                /\ heap[i].particlesToSpawn = <<>>
                /\ heap[i].particles = <<>>
                /\ heap[i].spawnIndex = 0
                /\ SumSeq(heap[i].spawned) = 0)
    /\ [][\A i \in DOMAIN heap :
            (FrameRan(i) /\ EmptyActive(heap[i])) =>
                /\ Moved(i) <=> TimerReached(i) >= totalPhaseDuration
                /\ Moved(i) =>
                      /\ heap'[i].currentClassIndex
                            = (heap[i].currentClassIndex + 1) % Len(CLASS_ORDER)
                      /\ heap'[i].lastActivation.spawnIndex = 0
                      /\ heap'[i].lastActivation.live = 0]_vars

\* the activation of a class that has only a zero-weight link has just ended
C29_Witness ==
    \E i \in DOMAIN heap :
        /\ Completed(heap[i])
        /\ heap[i].lastActivation.queueLen = 0
        /\ heap[i].lastActivation.classTimer >= totalPhaseDuration
        /\ \E l \in 1..Len(heap[i].links) :
              heap[i].links[l].source = CompletedClass(heap[i])

(* C30 *)

\* a step of showPanel that changes the panel shown or a per-year flag
NavigationStep ==
    activePanel' # activePanel \/ sankeyInitialized' # sankeyInitialized

\* C30: a per-year flag, once set, stays set; showing the panel of a year
\* whose flag is not set sets the flag and calls the load (one more pending
\* request if the container exists); a navigation step changes nothing of a
\* year whose flag is set: no further load, no retry of a failed one, no new
\* state object, no new loop.
C30_OneLoadPerYear ==
    [][/\ sankeyInitialized \subseteq sankeyInitialized'
       /\ \A y \in Years :
             NavigationStep =>
                 /\ (y \notin sankeyInitialized /\ activePanel' = YearPanel(y)) =>
                       /\ y \in sankeyInitialized'
                       /\ pendingLoads'[y]
                             = pendingLoads[y] + (IF container[y] = "missing" THEN 0 ELSE 1)
                 /\ y \in sankeyInitialized =>
                       /\ pendingLoads'[y] = pendingLoads[y]
                       /\ container'[y] = container[y]
                       /\ animationStates'[y] = animationStates[y]
                       /\ heap' = heap
                       /\ rafQueue' = rafQueue]_vars

\* the year's only load has failed, its panel is shown and nothing is pending
C30_Witness ==
    \E y \in Years :
        /\ y \in sankeyInitialized
        /\ activePanel = YearPanel(y)
        /\ container[y] = "error"
        /\ pendingLoads[y] = 0
        /\ animationStates[y] = 0

====
